---- MODULE Spec2Model ----
(***************************************************************************)
(* Menu-command handlers of airborne-crew (src/src/domain_functions.cpp):  *)
(* showInfo, startProgram, finishProgram, saveFile and moveCircle, acting  *)
(* on the Plane entity, the TGUI container and the file system.            *)
(*                                                                         *)
(* Coordinates are sf::Vector2f in the code.  The model uses integer       *)
(* pixel coordinates; on the values used here float subtraction is exact,  *)
(* so <<x, y>> with integer arithmetic is what the code computes.          *)
(***************************************************************************)
EXTENDS Integers, Sequences, FiniteSets, TLC

VARIABLES
    plane,       \* objects::Plane: primitive, toDraw, position, targetPosition
    gui,         \* widgets held by the tgui::Gui container
    fs,          \* content of each file
    faulted,     \* the process died of a fault
    io,          \* dialogs shown and files opened / written by the last event
    nextWidget,  \* address the next created widget gets
    lastEvent,   \* history: the event handled last
    before,      \* history: plane, gui and fs as they were before that event
    created,     \* history: dialogs Info/About asked for
    acked,       \* history: dialogs whose button was pressed
    lastVisCmd,  \* history: the latest of Program/Start and Program/Finish
    expTarget    \* history: target given by the latest Start or pointer move

vars == <<plane, gui, fs, faulted, io, nextWidget, lastEvent, before, created,
          acked, lastVisCmd, expTarget>>

Snapshot == [plane |-> plane, gui |-> gui, fs |-> fs]

(***************************************************************************)
(* Bounds of the model.                                                    *)
(***************************************************************************)
MaxDialogs  == 2      \* About dialogs created in one run
MaxPointer  == 1      \* pointer positions 0..MaxPointer
PointerStep == 70     \* pixels between two pointer positions

(***************************************************************************)
(* Program constants.                                                      *)
(***************************************************************************)
CircleRadius == 50    \* sf::CircleShape c(50.f)
OriginX      == 50    \* c.setPosition({ 50.f, 50.f }), SetTargetPosition
OriginY      == 50

Origin == <<OriginX, OriginY>>

\* objects::CIRCLE_SIZE: declared outside the shown sources; the offset that
\* centres the circle under the pointer, half of its visual size (diameter).
CIRCLE_SIZE == <<(2 * CircleRadius) \div 2, (2 * CircleRadius) \div 2>>

\* sf::Vector2f operator-
VecSub(a, b) == <<a[1] - b[1], a[2] - b[2]>>

(***************************************************************************)
(* Menu paths: std::vector<tgui::String>, compared with operator== which   *)
(* is an exact, case-sensitive comparison.                                 *)
(***************************************************************************)
InfoAbout     == <<"Info", "About">>
ProgramStart  == <<"Program", "Start">>
ProgramFinish == <<"Program", "Finish">>
FileSave      == <<"File", "Save">>

Recognized == {InfoAbout, ProgramStart, ProgramFinish, FileSave}

Unrecognized ==
    { <<>>, <<"Program">>,
      <<"info", "about">>, <<"program", "start">>, <<"Program", "finish">>,
      <<"FILE", "Save">>, <<"Program", "Save">>,
      <<"Info", "About", "About">>, <<"Program", "Start", "Start">>,
      <<"Program", "Finish", "Finish">>, <<"File", "Save", "Save">> }

MenuItems == Recognized \cup Unrecognized

(***************************************************************************)
(* The entity.  sf::CircleShape carries radius, fill colour and the place  *)
(* it was built at; Plane keeps the primitive (shape), the draw flag       *)
(* (visible), its current position and the target position, four fields    *)
(* independent of each other.                                              *)
(***************************************************************************)
CircleShape(r) == [radius |-> r, position |-> <<0, 0>>, fillColor |-> "White"]

setPosition(c, p)  == [c EXCEPT !.position = p]
setFillColor(c, k) == [c EXCEPT !.fillColor = k]

SetPrimitive(p, c)      == [p EXCEPT !.primitive = c]
SetToDraw(p, b)         == [p EXCEPT !.toDraw = b]
SetTargetPosition(p, t) == [p EXCEPT !.targetPosition = t]

\* the entity's current coordinate, a field of its own that no setter used
\* by the handlers assigns
position == plane.position

StartCircle == [radius |-> CircleRadius, position |-> Origin, fillColor |-> "Red"]

PointerPositions ==
    { <<PointerStep * i, PointerStep * (i + 1)>> : i \in 0..MaxPointer }

(***************************************************************************)
(* The file system seen through std::ofstream.  A file's content is the    *)
(* sequence of characters it holds.  Each path has a fixed behaviour:      *)
(* "a.txt" opens and takes writes, "ro.txt" cannot be opened for writing,  *)
(* "full.txt" opens but the device rejects the data when it is flushed.    *)
(***************************************************************************)
NoPath   == "<null>"      \* tinyfd_saveFileDialog returned NULL (cancelled)
NotAsked == "<no dialog>" \* no dialog was shown by the event

Paths == {"a.txt", "ro.txt", "full.txt"}

CanOpen(f)  == f \in {"a.txt", "full.txt"}
CanWrite(f) == f = "a.txt"

Placeholder == <<"T", "E", "S", "T", "\n">>
OldContent  == <<"o", "l", "d", " ", "d", "a", "t", "a", "\n">>

Prefix(s, k) == SubSeq(s, 1, k)

NoIO == [prompts |-> 0, opens |-> <<>>, writes |-> <<>>]

\* std::ofstream ofs(file_path): the default mode is out | trunc.  A path
\* that cannot be opened sets failbit and throws nothing (the exception
\* mask of a stream is goodbit).  A null file_path is undefined behaviour:
\* the open call is made with the null pointer and either fails or the
\* process faults, which `ub` selects.
\* variant: opens in append mode, without truncating
ofstream_Append(fsys, file_path, ub) ==
    IF file_path = NoPath
    THEN [fs |-> fsys, file |-> file_path, isOpen |-> FALSE, failbit |-> TRUE,
          fault |-> (ub = "fault"), buf |-> <<>>]
    ELSE IF CanOpen(file_path)
    THEN [fs |-> fsys, file |-> file_path,
          isOpen |-> TRUE, failbit |-> FALSE, fault |-> FALSE, buf |-> <<>>]
    ELSE [fs |-> fsys, file |-> file_path, isOpen |-> FALSE, failbit |-> TRUE,
          fault |-> FALSE, buf |-> <<>>]

ofstream(fsys, file_path, ub) ==
    IF file_path = NoPath
    THEN [fs |-> fsys, file |-> file_path, isOpen |-> FALSE, failbit |-> TRUE,
          fault |-> (ub = "fault"), buf |-> <<>>]
    ELSE IF CanOpen(file_path)
    THEN [fs |-> [fsys EXCEPT ![file_path] = <<>>], file |-> file_path,
          isOpen |-> TRUE, failbit |-> FALSE, fault |-> FALSE, buf |-> <<>>]
    ELSE [fs |-> fsys, file |-> file_path, isOpen |-> FALSE, failbit |-> TRUE,
          fault |-> FALSE, buf |-> <<>>]

\* ofs << text: a stream whose failbit is set ignores the insertion.
Insert(ofs, text) ==
    IF ofs.failbit \/ ofs.fault THEN ofs
    ELSE [ofs EXCEPT !.buf = ofs.buf \o text]

\* ofs.close(): flushes the buffer into the file.  When the device rejects
\* the data only the first k characters arrive and failbit is set; nothing
\* is thrown.
close(ofs, k) ==
    IF ~ofs.isOpen THEN [ofs EXCEPT !.failbit = TRUE]
    ELSE IF CanWrite(ofs.file)
    THEN [ofs EXCEPT !.fs = [ofs.fs EXCEPT ![ofs.file] = ofs.fs[ofs.file] \o ofs.buf],
                     !.buf = <<>>, !.isOpen = FALSE]
    ELSE [ofs EXCEPT !.fs = [ofs.fs EXCEPT ![ofs.file] =
                                 ofs.fs[ofs.file] \o Prefix(ofs.buf, k)],
                     !.buf = <<>>, !.isOpen = FALSE, !.failbit = TRUE]

(***************************************************************************)
(* Widgets of the tgui::Gui container.  A widget is identified by its      *)
(* address; the model numbers the MessageBoxes in creation order.          *)
(***************************************************************************)
MenuBar == [id |-> 0, type |-> "MenuBar", buttons |-> <<>>]

MessageBox_create(w) == [id |-> w, type |-> "MessageBox", buttons |-> <<>>]

addButton(m, caption) == [m EXCEPT !.buttons = Append(m.buttons, caption)]

add(g, w)    == g \cup {w}
remove(g, w) == g \ {w}

\* variant: the lambda clears every MessageBox of the parent
onButtonPress_RemoveAll(g, msgBox, button) == {w \in g : w.type # "MessageBox"}

\* the lambda given to messageBox->onButtonPress
onButtonPress(g, msgBox, button) == remove(g, msgBox)

(***************************************************************************)
(* The handlers.                                                           *)
(***************************************************************************)
\* w: the address of the MessageBox that create() would return
showInfo(g, menuItem, w) ==
    IF Len(menuItem) = 2 /\ menuItem[1] = "Info" /\ menuItem[2] = "About"
    THEN LET messageBox == addButton(MessageBox_create(w), "OK")
         IN  add(g, messageBox)
    ELSE g

\* variant: forgets to reset the target position
startProgram_KeepTarget(p, menuItem) ==
    IF Len(menuItem) = 2 /\ menuItem[1] = "Program" /\ menuItem[2] = "Start"
    THEN LET c == setFillColor(setPosition(CircleShape(CircleRadius), Origin), "Red")
         IN  SetToDraw(SetPrimitive(p, c), TRUE)
    ELSE p

startProgram(p, menuItem) ==
    IF Len(menuItem) = 2 /\ menuItem[1] = "Program" /\ menuItem[2] = "Start"
    THEN LET c == setFillColor(setPosition(CircleShape(CircleRadius), Origin), "Red")
         IN  SetTargetPosition(SetToDraw(SetPrimitive(p, c), TRUE), Origin)
    ELSE p

\* variant: no check of the number of labels
finishProgram_NoSizeCheck(p, menuItem) ==
    IF Len(menuItem) >= 2 /\ menuItem[1] = "Program" /\ menuItem[2] = "Finish"
    THEN SetToDraw(p, FALSE)
    ELSE p

\* variant: also sends the entity back to the origin
finishProgram_Reset(p, menuItem) ==
    IF Len(menuItem) = 2 /\ menuItem[1] = "Program" /\ menuItem[2] = "Finish"
    THEN SetTargetPosition(SetToDraw(p, FALSE), Origin)
    ELSE p

finishProgram(p, menuItem) ==
    IF Len(menuItem) = 2 /\ menuItem[1] = "Program" /\ menuItem[2] = "Finish"
    THEN SetToDraw(p, FALSE)
    ELSE p

\* file_path: what tinyfd_saveFileDialog returns when it is shown;
\* ub, k: the outcome of the null open and of a rejected flush.
\* variant: a stream that failed is treated as a fault (exceptions enabled)
saveFile_Throwing(fsys, menuItem, file_path, ub, k) ==
    IF Len(menuItem) = 2 /\ menuItem[1] = "File" /\ menuItem[2] = "Save"
    THEN LET ofs  == ofstream(fsys, file_path, ub)
             done == close(Insert(ofs, Placeholder), k)
         IN  IF ofs.fault \/ done.failbit
             THEN [fs |-> done.fs, fault |-> TRUE,
                   io |-> [prompts |-> 1, opens |-> <<file_path>>,
                           writes |-> IF ofs.isOpen THEN <<file_path>> ELSE <<>>]]
             ELSE [fs |-> done.fs, fault |-> FALSE,
                   io |-> [prompts |-> 1, opens |-> <<file_path>>,
                           writes |-> IF ofs.isOpen THEN <<file_path>> ELSE <<>>]]
    ELSE [fs |-> fsys, fault |-> FALSE, io |-> NoIO]

saveFile(fsys, menuItem, file_path, ub, k) ==
    IF Len(menuItem) = 2 /\ menuItem[1] = "File" /\ menuItem[2] = "Save"
    THEN LET ofs  == ofstream(fsys, file_path, ub)
             done == close(Insert(ofs, Placeholder), k)
         IN  IF ofs.fault
             THEN [fs |-> fsys, fault |-> TRUE,
                   io |-> [prompts |-> 1, opens |-> <<file_path>>, writes |-> <<>>]]
             ELSE [fs |-> done.fs, fault |-> FALSE,
                   io |-> [prompts |-> 1, opens |-> <<file_path>>,
                           writes |-> IF ofs.isOpen THEN <<file_path>> ELSE <<>>]]
    ELSE [fs |-> fsys, fault |-> FALSE, io |-> NoIO]

\* variant: anchors the corner of the shape at the pointer
moveCircle_NoOffset(p, mousePosition) ==
    SetTargetPosition(p, mousePosition)

\* variant: places the entity itself under the pointer
moveCircle_Teleport(p, mousePosition) ==
    [SetTargetPosition(p, VecSub(mousePosition, CIRCLE_SIZE))
        EXCEPT !.position = VecSub(mousePosition, CIRCLE_SIZE)]

\* variant: ignores the pointer while the entity is hidden
moveCircle_OnlyWhenDrawn(p, mousePosition) ==
    IF p.toDraw THEN SetTargetPosition(p, VecSub(mousePosition, CIRCLE_SIZE)) ELSE p

moveCircle(p, mousePosition) ==
    SetTargetPosition(p, VecSub(mousePosition, CIRCLE_SIZE))

(***************************************************************************)
(* State after construction.  The Plane constructor and the window set-up  *)
(* are outside the shown sources: the primitive starts as a default        *)
(* sf::CircleShape and the draw flag may start either way.                 *)
(***************************************************************************)
NoEvent == [kind |-> "none", item |-> <<>>, pointer |-> <<0, 0>>,
            dialog |-> NotAsked, widget |-> 0]

Init ==
    /\ plane \in { [primitive |-> CircleShape(0), toDraw |-> b,
                    position |-> <<0, 0>>,
                    targetPosition |-> <<0, 0>>] : b \in BOOLEAN }
    /\ gui = {MenuBar}
    /\ fs = [f \in Paths |-> OldContent]
    /\ faulted = FALSE
    /\ io = NoIO
    /\ lastEvent = NoEvent
    /\ before = Snapshot
    /\ nextWidget = 1
    /\ created = {}
    /\ acked = {}
    /\ lastVisCmd = "none"
    /\ expTarget = [set |-> FALSE, val |-> <<0, 0>>]

\* what the save dialog can return to this activation: a path or NULL when
\* saveFile shows it, nothing when it does not
DialogAnswers(menuItem) ==
    IF saveFile(fs, menuItem, NoPath, "openfails", 0).io.prompts > 0
    THEN Paths \cup {NoPath}
    ELSE {NotAsked}

\* outcomes the environment chooses for one Save
UbOutcomes(file_path) ==
    IF file_path = NoPath THEN {"openfails", "fault"} ELSE {"openfails"}

FlushOutcomes(file_path) ==
    IF file_path \in Paths /\ CanOpen(file_path) /\ ~CanWrite(file_path)
    THEN 0 .. (Len(Placeholder) - 1)
    ELSE {0}

(***************************************************************************)
(* A menu item is activated: the menu bar's signal runs the four handlers  *)
(* on the same path.                                                       *)
(***************************************************************************)
MenuItemClick(menuItem, file_path, ub, k) ==
    /\ ~faulted
    /\ (menuItem = InfoAbout) => (nextWidget <= MaxDialogs)
    /\ LET g  == showInfo(gui, menuItem, nextWidget)
           p  == finishProgram(startProgram(plane, menuItem), menuItem)
           sv == saveFile(fs, menuItem, file_path, ub, k)
       IN  /\ gui' = g
           /\ plane' = p
           /\ fs' = sv.fs
           /\ io' = sv.io
           /\ faulted' = sv.fault
           /\ nextWidget' = IF g # gui THEN nextWidget + 1 ELSE nextWidget
           /\ lastEvent' = [kind |-> "menu", item |-> menuItem, pointer |-> <<0, 0>>,
                            dialog |-> file_path,
                            widget |-> 0]
    /\ before' = Snapshot
    /\ created' = IF menuItem = InfoAbout THEN created \cup {nextWidget} ELSE created
    /\ lastVisCmd' = IF menuItem = ProgramStart THEN "Start"
                     ELSE IF menuItem = ProgramFinish THEN "Finish"
                     ELSE lastVisCmd
    /\ expTarget' = IF menuItem = ProgramStart THEN [set |-> TRUE, val |-> Origin]
                    ELSE expTarget
    /\ UNCHANGED acked

\* half of the entity's fixed visual size, the diameter of the Start circle
centerOffset == <<(2 * CircleRadius) \div 2, (2 * CircleRadius) \div 2>>

(***************************************************************************)
(* The pointer moved to mousePosition.                                     *)
(***************************************************************************)
MouseMoved(mousePosition) ==
    /\ ~faulted
    /\ plane' = moveCircle(plane, mousePosition)
    /\ io' = NoIO
    /\ before' = Snapshot
    /\ lastEvent' = [kind |-> "pointer", item |-> <<>>, pointer |-> mousePosition,
                     dialog |-> NotAsked, widget |-> 0]
    /\ expTarget' = [set |-> TRUE, val |-> VecSub(mousePosition, centerOffset)]
    /\ UNCHANGED <<gui, fs, faulted, nextWidget, created, acked, lastVisCmd>>

(***************************************************************************)
(* A button of a MessageBox shown in the container is pressed.             *)
(***************************************************************************)
ButtonPress(msgBox, button) ==
    /\ ~faulted
    /\ msgBox \in gui
    /\ msgBox.type = "MessageBox"
    /\ gui' = onButtonPress(gui, msgBox, button)
    /\ acked' = acked \cup {msgBox.id}
    /\ io' = NoIO
    /\ before' = Snapshot
    /\ lastEvent' = [kind |-> "button", item |-> <<>>, pointer |-> <<0, 0>>,
                     dialog |-> NotAsked, widget |-> msgBox.id]
    /\ UNCHANGED <<plane, fs, faulted, nextWidget, created, lastVisCmd, expTarget>>

(***************************************************************************)
(* The per-frame stepping process, outside the handlers: it moves the      *)
(* position toward the target; the model lets it arrive.                   *)
(***************************************************************************)
Step ==
    /\ ~faulted
    /\ plane' = [plane EXCEPT !.position = plane.targetPosition]
    /\ io' = NoIO
    /\ before' = Snapshot
    /\ lastEvent' = [kind |-> "step", item |-> <<>>, pointer |-> <<0, 0>>,
                     dialog |-> NotAsked, widget |-> 0]
    /\ UNCHANGED <<gui, fs, faulted, nextWidget, created, acked, lastVisCmd, expTarget>>

Next ==
    \/ \E menuItem \in MenuItems : \E file_path \in DialogAnswers(menuItem) :
         \E ub \in UbOutcomes(file_path), k \in FlushOutcomes(file_path) :
            MenuItemClick(menuItem, file_path, ub, k)
    \/ \E mousePosition \in PointerPositions : MouseMoved(mousePosition)
    \/ \E msgBox \in gui : \E button \in 1 .. Len(msgBox.buttons) :
            ButtonPress(msgBox, msgBox.buttons[button])
    \/ Step

Spec == Init /\ [][Next]_vars

(***************************************************************************)
(* Properties.                                                             *)
(***************************************************************************)
IsMenu(item) == lastEvent.kind = "menu" /\ lastEvent.item = item

Dialogs(g) == {w \in g : w.type = "MessageBox"}

StartPlane == [primitive |-> StartCircle, toDraw |-> TRUE, position |-> position,
               targetPosition |-> Origin]

\* C1: a menu path that is not exactly one of the four recognized pairs
\* changes nothing in the entity, adds no widget, shows no file dialog and
\* opens or writes no file.
C1_UnrecognizedIsNoOp ==
    (lastEvent.kind = "menu" /\ lastEvent.item \notin Recognized) =>
        /\ plane = before.plane
        /\ gui = before.gui
        /\ fs = before.fs
        /\ io = NoIO
        /\ ~faulted

C1_Witness ==
    /\ IsMenu(<<"Program", "Finish", "Finish">>)
    /\ lastVisCmd = "Start"
    /\ plane.toDraw
    /\ plane.targetPosition # Origin

\* C2: Program/Start leaves the entity visible, targeted at the origin
\* (50,50) and shaped as the red circle of radius 50 placed at that origin,
\* whatever the state before; Start applied again changes nothing.
C2_StartResult ==
    /\ IsMenu(ProgramStart) =>
          /\ plane.toDraw = TRUE
          /\ plane.targetPosition = <<50, 50>>
          /\ plane.primitive = [radius |-> 50, position |-> <<50, 50>>,
                                fillColor |-> "Red"]
    /\ startProgram(startProgram(plane, ProgramStart), ProgramStart)
          = startProgram(plane, ProgramStart)

C2_Witness ==
    /\ IsMenu(ProgramStart)
    /\ plane = StartPlane
    /\ ~before.plane.toDraw
    /\ before.plane.targetPosition # Origin
    /\ before.plane.primitive # StartCircle

\* C3: Program/Finish leaves the entity hidden and leaves targetPosition and
\* shape as they were before the command.
C3_FinishResult ==
    IsMenu(ProgramFinish) =>
        /\ plane.toDraw = FALSE
        /\ plane.targetPosition = before.plane.targetPosition
        /\ plane.primitive = before.plane.primitive

C3_Witness ==
    /\ IsMenu(ProgramFinish)
    /\ before.plane.toDraw
    /\ ~plane.toDraw
    /\ plane.primitive.radius = CircleRadius
    /\ plane.targetPosition # Origin
    /\ position # Origin

\* C4: a pointer move to P sets targetPosition to P - centerOffset, with
\* centerOffset half the visual size of the Start circle, and changes
\* neither the draw flag nor the shape.
C4_PointerTarget ==
    lastEvent.kind = "pointer" =>
        /\ plane.targetPosition = <<lastEvent.pointer[1] - centerOffset[1],
                                    lastEvent.pointer[2] - centerOffset[2]>>
        /\ 2 * centerOffset[1] = 2 * StartCircle.radius
        /\ 2 * centerOffset[2] = 2 * StartCircle.radius
        /\ plane.toDraw = before.plane.toDraw
        /\ plane.primitive = before.plane.primitive

C4_Witness ==
    /\ lastEvent.kind = "pointer"
    /\ lastEvent.pointer[1] > 0
    /\ lastEvent.pointer[1] # lastEvent.pointer[2]
    /\ plane.targetPosition # before.plane.targetPosition
    /\ plane.primitive = StartCircle
    /\ plane.toDraw

\* C5: when the save dialog of File/Save is cancelled (null path), saveFile
\* attempts to open no file and writes nothing.
C5_CancelNoFileOperation ==
    (IsMenu(FileSave) /\ lastEvent.dialog = NoPath) =>
        /\ io.opens = <<>>
        /\ io.writes = <<>>
        /\ fs = before.fs
        /\ ~faulted

\* C6 as stated: when the save dialog returns a path F that can be opened
\* for writing, the file at F holds exactly the line "TEST\n" afterwards,
\* whatever it held before, and no other file is written.
C6_OpenedFileHoldsPlaceholder ==
    (IsMenu(FileSave) /\ lastEvent.dialog \in Paths /\ CanOpen(lastEvent.dialog)) =>
        /\ fs[lastEvent.dialog] = <<"T", "E", "S", "T", "\n">>
        /\ \A f \in Paths \ {lastEvent.dialog} : fs[f] = before.fs[f]
        /\ io.opens = <<lastEvent.dialog>>
        /\ io.writes = <<lastEvent.dialog>>

\* C6 as amended: when the save dialog returns a path F that can be opened
\* for writing and the write to it succeeds, the file at F holds exactly the
\* line "TEST\n" afterwards, whatever it held before; whenever F can be
\* opened its prior content is discarded, not appended to, and no file other
\* than F is written.
C6_SaveWritesPlaceholder ==
    (IsMenu(FileSave) /\ lastEvent.dialog \in Paths /\ CanOpen(lastEvent.dialog)) =>
        /\ CanWrite(lastEvent.dialog) =>
              fs[lastEvent.dialog] = <<"T", "E", "S", "T", "\n">>
        /\ \E n \in 0 .. 5 :
              fs[lastEvent.dialog] = Prefix(<<"T", "E", "S", "T", "\n">>, n)
        /\ \A f \in Paths \ {lastEvent.dialog} : fs[f] = before.fs[f]
        /\ io.opens = <<lastEvent.dialog>>
        /\ io.writes = <<lastEvent.dialog>>
        /\ ~faulted

C6_Witness ==
    /\ IsMenu(FileSave)
    /\ lastEvent.dialog = "a.txt"
    /\ before.fs["a.txt"] = OldContent
    /\ fs["a.txt"] = Placeholder
    /\ Len(before.fs["a.txt"]) > Len(Placeholder)

\* C7: every Info/About adds exactly one dialog with a single button, a
\* button press removes exactly that dialog and no other widget, so the
\* dialogs in the container are those created and not yet acknowledged.
C7_DialogsCreatedNotAcked ==
    /\ {w.id : w \in Dialogs(gui)} = created \ acked
    /\ Cardinality(Dialogs(gui)) = Cardinality(created \ acked)
    /\ \A w \in Dialogs(gui) : Len(w.buttons) = 1
    /\ gui \ Dialogs(gui) = {MenuBar}
    /\ IsMenu(InfoAbout) =>
          /\ before.gui \subseteq gui
          /\ Cardinality(gui \ before.gui) = 1
          /\ gui \ before.gui \subseteq Dialogs(gui)
    /\ lastEvent.kind = "button" =>
          /\ gui \subseteq before.gui
          /\ {w.id : w \in before.gui \ gui} = {lastEvent.widget}
    /\ (created # {} /\ created \subseteq acked) => Dialogs(gui) = {}

C7_Witness ==
    /\ lastEvent.kind = "button"
    /\ Cardinality(created) = 2
    /\ Cardinality(acked) = 1
    /\ Cardinality(Dialogs(gui)) = 1
    /\ Cardinality(Dialogs(before.gui)) = 2

C9_FailureFaults ==
    (IsMenu(FileSave) /\ lastEvent.dialog \in Paths
        /\ ~(CanOpen(lastEvent.dialog) /\ CanWrite(lastEvent.dialog))) =>
        faulted

\* C9 as amended: such a Save is not handled and not reported: the handler
\* completes normally without a fault, having made exactly one attempt on
\* that path; a file that cannot be opened is left as it was, a file whose
\* write fails is left truncated with at most part of the line.
C9_FailureIsSilent ==
    (IsMenu(FileSave) /\ lastEvent.dialog \in Paths
        /\ ~(CanOpen(lastEvent.dialog) /\ CanWrite(lastEvent.dialog))) =>
        /\ ~faulted
        /\ io.prompts = 1
        /\ io.opens = <<lastEvent.dialog>>
        /\ \A f \in Paths \ {lastEvent.dialog} : fs[f] = before.fs[f]
        /\ ~CanOpen(lastEvent.dialog) => (fs = before.fs /\ io.writes = <<>>)
        /\ CanOpen(lastEvent.dialog) =>
              \E n \in 0 .. (Len(Placeholder) - 1) :
                  fs[lastEvent.dialog] = Prefix(Placeholder, n)

C9_Witness ==
    /\ IsMenu(FileSave)
    /\ lastEvent.dialog = "ro.txt"
    /\ ~faulted
    /\ fs["ro.txt"] = OldContent
    /\ fs["full.txt"] # OldContent

\* C10: once Program/Start or Program/Finish has been given, the entity is
\* drawn exactly when the latest of them was Start; no other event changes
\* the draw flag; the target is the one given by the latest Start or pointer
\* move, also while the entity is hidden.
C10_VisibleFollowsLastCommand ==
    /\ lastVisCmd # "none" => (plane.toDraw <=> lastVisCmd = "Start")
    /\ (lastEvent.kind # "none" /\ ~IsMenu(ProgramStart) /\ ~IsMenu(ProgramFinish)) =>
          plane.toDraw = before.plane.toDraw
    /\ expTarget.set => plane.targetPosition = expTarget.val

C10_Witness ==
    /\ lastEvent.kind = "pointer"
    /\ lastVisCmd = "Finish"
    /\ ~plane.toDraw
    /\ expTarget.set
    /\ plane.targetPosition = expTarget.val
    /\ plane.targetPosition # before.plane.targetPosition

====
